---- MODULE Spec2Model ----
(***************************************************************************)
(* A model of imconv.py: conversion of a raster image into the packed      *)
(* 1-bit-per-pixel, page-addressed byte stream of SSD1306-class displays.  *)
(*                                                                         *)
(* main() is modelled as a sequential process whose program counter pc     *)
(* walks through the function: Open, CheckDims, CheckMode, the downscale   *)
(* loop (one block per step), the packing loop (one inner iteration per    *)
(* step), save_to_h, and the two list appends.  The decoded image (the     *)
(* Image Decoder is an external library) is an input of the run.           *)
(***************************************************************************)
EXTENDS Integers, Sequences, FiniteSets, TLC

VARIABLES
    pc,              \* position inside main(): "idle" when no run is active
    args,            \* the arguments of main()
    im,              \* the decoded image: mode, has_transparency_data, width, height, px
    scale_factor_x, scale_factor_y, hn, hn2, wn,
    has_alpha, rgb_mode, i_mode,
    img,             \* the h x w work grid img[row][column], 0-based
    x, y, n,         \* loop variables (x and y are reused by the packing loop)
    byte, byte_offset, result_array,
    pxReads,         \* number of px[...] accesses made by the current run
    headers,         \* output folder: header file name -> file state
    incList,         \* the include-list file, a sequence of lines
    structList,      \* the struct-list file, a sequence of lines
    history,         \* one entry per finished invocation, in invocation order
    call             \* a single call of one of the pure helper functions

vars == <<pc, args, im, scale_factor_x, scale_factor_y, hn, hn2, wn,
          has_alpha, rgb_mode, i_mode, img, x, y, n, byte, byte_offset,
          result_array, pxReads, headers, incList, structList, history, call>>

(***************************************************************************)
(* Bounds of the model.                                                    *)
(***************************************************************************)
MaxW == 5        \* widest enumerated source image
MaxH == 2        \* tallest enumerated source image
MaxDestW == 3    \* largest enumerated --dest_w
MaxRuns == 3     \* invocations of main() in the repeated-invocation specification
MaxV == 66000    \* largest enumerated argument of scale_crop
MinVAbs == 600   \* scale_crop is applied to every v >= -MinVAbs

(***************************************************************************)
(* Pure helpers.                                                           *)
(***************************************************************************)
\* A scale_crop that rounds to nearest instead of up.
scale_crop_nearest(v, scale) ==
    LET q == (v + (scale \div 2)) \div scale
    IN  IF q < 0 THEN 0 ELSE IF q > 255 THEN 255 ELSE q

\* scale_crop(v, scale): (v + scale - 1) // scale, cropped to 0..255.
\* Python's // is floor division, as is \div for a positive divisor.
scale_crop(v, scale) ==
    LET q == (v + scale - 1) \div scale
    IN  IF q < 0 THEN 0 ELSE IF q > 255 THEN 255 ELSE q

\* The default value of scale_crop's parameter scale.
DefaultScale == 256

\* An rgba2rgb that weighs the background by alpha and the colour by 255 - alpha.
rgba2rgb_swapped(c, bg) ==
    LET q(v) == IF (v + 255) \div 256 > 255 THEN 255 ELSE (v + 255) \div 256
    IN  << q(c[4] * bg[1] + (255 - c[4]) * c[1]),
           q(c[4] * bg[2] + (255 - c[4]) * c[2]),
           q(c[4] * bg[3] + (255 - c[4]) * c[3]) >>

\* rgba2rgb(c, bg): composite c = <<r, g, b, alpha>> over the background.
rgba2rgb(c, bg) ==
    LET r == c[1]
        g == c[2]
        b == c[3]
        alpha == c[4]
    IN  << scale_crop((255 - alpha) * bg[1] + alpha * r, DefaultScale),
           scale_crop((255 - alpha) * bg[2] + alpha * g, DefaultScale),
           scale_crop((255 - alpha) * bg[3] + alpha * b, DefaultScale) >>

\* The default background of rgba2rgb.
DefaultBg == <<255, 255, 255>>

\* A color_invert that does not invert.
color_invert_identity(c) == << c[1], c[2], c[3] >>

color_invert(c) == << 255 - c[1], 255 - c[2], 255 - c[3] >>

get_y(rgb) == scale_crop(76 * rgb[1] + 150 * rgb[2] + 29 * rgb[3], DefaultScale)

\* File names are sequences of characters, already split by
\* os.path.basename / os.path.splitext into base name and extension
\* (the extension without its dot).
Replace(s, old, new) == [i \in DOMAIN s |-> IF s[i] = old THEN new ELSE s[i]]

get_h_define(filename) == <<"I", "M", "G", "_">> \o Replace(filename.base, "-", "_")

get_h_filename(filename) ==
    <<"I", "m", "g", "_">> \o filename.base \o <<"_">> \o filename.ext \o <<".", "h">>

(***************************************************************************)
(* Decoded images.  A mode tag is modelled as the result of                *)
(* mode.split(";"), with the bit depth already a number: <<"RGB">>,        *)
(* <<"RGBA">>, <<"I", 16>>, <<"L">>, <<"P">>, <<"I">>.                     *)
(***************************************************************************)
ModeRGB  == <<"RGB">>
ModeRGBA == <<"RGBA">>
ModeI16  == <<"I", 16>>
ModeL    == <<"L">>
ModeP    == <<"P">>
ModeI    == <<"I">>

\* Number of values in one sample returned by px[x, y]; 1 stands for a
\* plain integer sample.
Bands(mode) ==
    IF mode = ModeRGBA THEN 4 ELSE IF mode = ModeRGB THEN 3 ELSE 1

\* The values of has_transparency_data the decoder can report for a mode.
TransparencyFlags(mode) ==
    IF mode = ModeRGBA THEN {TRUE} ELSE IF mode = ModeI THEN {FALSE} ELSE {FALSE, TRUE}

\* Sample values used when enumerating images.
Samples(mode) ==
    IF mode = ModeRGB  THEN { <<0, 0, 0>>, <<255, 255, 255>>, <<128, 128, 128>> }
    ELSE IF mode = ModeRGBA THEN { <<0, 0, 0, 255>>, <<255, 255, 255, 255>>, <<0, 0, 0, 128>> }
    ELSE IF mode = ModeI16  THEN { 0, 65535, 32768 }
    ELSE IF mode = ModeI    THEN { 0 }
    ELSE { 0, 255 }

Pixels(w, h) == (0 .. w - 1) \X (0 .. h - 1)

\* An image whose pixels all equal bg, except the pixel spot (if any), which is fg.
Spotted(mode, flag, w, h, bg, fg, spots) ==
    [ mode |-> mode, has_transparency_data |-> flag, width |-> w, height |-> h,
      px |-> [p \in Pixels(w, h) |-> IF p \in spots THEN fg ELSE bg] ]

\* The sets of differing pixels used when enumerating images: none, or one pixel.
SpotSets(w, h) == {{}} \cup { {p} : p \in Pixels(w, h) }

Black == <<0, 0, 0>>
White == <<255, 255, 255>>

\* The 8 x 8 image of main's docstring: row r has its only dark pixel at
\* column 2r (rows 0..3) or 2(r-4)+1 (rows 4..7).
DocSpots == { <<2 * r, r>> : r \in 0 .. 3 } \cup { <<2 * (r - 4) + 1, r>> : r \in 4 .. 7 }

DocImage == Spotted(ModeRGB, FALSE, 8, 8, White, Black, DocSpots)

(***************************************************************************)
(* Inputs of one invocation: the arguments of main() and the image the     *)
(* decoder returns for args.filename.                                      *)
(***************************************************************************)
FileA == [base |-> <<"a", "-", "b">>, ext |-> <<"p", "n", "g">>]
FileB == [base |-> <<"c">>, ext |-> <<"b", "m", "p">>]

DefaultThr == 127

Thresholds == {DefaultThr, DefaultThr - 1}

ListIncludes == {"", "inc_imgs.h"}
ListStructs  == {"", "inc_struct.h"}

Input(filename, image, dest_w, dest_h, thr, list_include, list_struct) ==
    [ filename |-> filename, image |-> image, dest_w |-> dest_w, dest_h |-> dest_h,
      thr |-> thr, list_include |-> list_include, list_struct |-> list_struct ]

Modes == {ModeRGB, ModeRGBA, ModeI16, ModeL, ModeP, ModeI}

\* The named scenarios: the docstring image, solid black and solid white
\* 16 x 16 RGB images with the default arguments, tall one-column images
\* (a second, partial page), a 25-pixel-wide image asked for 10 or 12 columns,
\* and a 5-pixel-high image asked for 2 rows.
ExampleInputs ==
    { Input(FileA, DocImage, 8, 8, DefaultThr, "", "") }
    \cup { Input(FileA, Spotted(ModeRGB, FALSE, 16, 16, c, c, {}), 16, 16, DefaultThr,
                 "inc_imgs.h", "inc_struct.h") : c \in {Black, White} }
    \cup UNION { { Input(FileA, Spotted(ModeRGB, FALSE, 1, h, bg, fg, {p}), 1, h, DefaultThr, "", "") :
                     p \in Pixels(1, h), bg \in {Black, White}, fg \in {Black, White} } :
                 h \in {8, 9, 10} }
    \cup { Input(FileA, Spotted(ModeRGB, FALSE, 25, 1, Black, Black, {}), dest_w, 1, DefaultThr, "", "") :
             dest_w \in {10, 12} }
    \cup { Input(FileA, Spotted(ModeRGB, FALSE, 1, 5, Black, Black, {}), 1, 2, DefaultThr, "", "") }

(***************************************************************************)
(* The state between invocations: no local of main() exists.               *)
(***************************************************************************)
NoArgs == [ filename |-> FileA, dest_w |-> 0, dest_h |-> 0, thr |-> 0,
            list_include |-> "", list_struct |-> "" ]
NoImage == [ mode |-> <<>>, has_transparency_data |-> FALSE, width |-> 0, height |-> 0,
             px |-> <<>> ]
NoCall == [ fn |-> "none" ]

Locals0 ==
    /\ args = NoArgs /\ im = NoImage
    /\ scale_factor_x = 0 /\ scale_factor_y = 0 /\ hn = 0 /\ hn2 = 0 /\ wn = 0
    /\ has_alpha = FALSE /\ rgb_mode = FALSE /\ i_mode = 0
    /\ img = <<>> /\ x = 0 /\ y = 0 /\ n = 0
    /\ byte = 0 /\ byte_offset = 0 /\ result_array = <<>> /\ pxReads = 0

Init ==
    /\ pc = "idle"
    /\ Locals0
    /\ headers = <<>>        \* the output folder holds no header
    /\ incList = <<>> /\ structList = <<>>
    /\ history = <<>>
    /\ call = NoCall

\* main() can be called: no invocation is running, and fewer than maxRuns have run.
Callable(maxRuns) == pc = "idle" /\ Len(history) < maxRuns

\* main() is entered: Image.open, im.load, width and height (lines 235-243).
Start(in) ==
    /\ args' = [ filename |-> in.filename, dest_w |-> in.dest_w, dest_h |-> in.dest_h,
                 thr |-> in.thr, list_include |-> in.list_include,
                 list_struct |-> in.list_struct ]
    /\ im' = in.image
    /\ pc' = "dims"
    /\ UNCHANGED <<scale_factor_x, scale_factor_y, hn, hn2, wn, has_alpha, rgb_mode, i_mode,
                   img, x, y, n, byte, byte_offset, result_array, pxReads,
                   headers, incList, structList, history, call>>

\* main() is called on a small image: every mode, size, transparency flag,
\* solid or one-spot content, destination size, threshold and list setting.
OpenSmall ==
    /\ Callable(1)
    /\ \E mode \in Modes, w \in 1 .. MaxW, h \in 1 .. MaxH :
         \E flag \in TransparencyFlags(mode), bg \in Samples(mode), fg \in Samples(mode),
            spots \in SpotSets(w, h) :
           \E dest_w \in 1 .. MaxDestW, dest_h \in 1 .. MaxH, thr \in Thresholds,
              li \in ListIncludes, ls \in ListStructs :
             /\ (spots = {}) <=> (fg = bg)
             /\ Start(Input(FileA, Spotted(mode, flag, w, h, bg, fg, spots),
                            dest_w, dest_h, thr, li, ls))

\* main() is called on one of the named scenarios.
OpenExample == Callable(1) /\ \E in \in ExampleInputs : Start(in)

\* main() is called again on the same output folder: 1 x 1 images that
\* succeed (RGB), are rejected (mode L, or two columns asked for), or fail
\* while the first pixel is processed (RGB with transparency data).
OpenRun ==
    /\ Callable(MaxRuns)
    /\ \E filename \in {FileA, FileB}, mode \in {ModeRGB, ModeL}, flag \in {FALSE, TRUE},
          dest_w \in {1, 2}, li \in ListIncludes, ls \in ListStructs :
         Start(Input(filename, Spotted(mode, flag, 1, 1, CHOOSE c \in Samples(mode) : TRUE,
                                       CHOOSE c \in Samples(mode) : TRUE, {}),
                     dest_w, 1, DefaultThr, li, ls))

\* scale_factor = max(1, size // dest) (lines 245-252).
ScaleFactor(size, dest) == IF size \div dest < 1 THEN 1 ELSE size \div dest

\* The dimension check (lines 256-266): TRUE when main() exits.
BadDims(h_new, w_new, dest_h, dest_w) == (h_new # dest_h) \/ (w_new # dest_w)

\* Scale factors, result size and the dimension check (lines 245-271).
CheckDims ==
    /\ pc = "dims"
    /\ LET sfx == ScaleFactor(im.width, args.dest_w)
           sfy == ScaleFactor(im.height, args.dest_h)
           h_new == im.height \div sfy
           w_new == im.width \div sfx
       IN  /\ scale_factor_x' = sfx
           /\ scale_factor_y' = sfy
           /\ hn' = h_new
           /\ hn2' = (h_new + 8 - 1) \div 8
           /\ wn' = w_new
           /\ IF BadDims(h_new, w_new, args.dest_h, args.dest_w)
              THEN pc' = "exit" /\ img' = img
              ELSE /\ pc' = "mode"
                   /\ img' = [r \in 0 .. im.height - 1 |-> [c \in 0 .. im.width - 1 |-> 0]]
    /\ UNCHANGED <<args, im, has_alpha, rgb_mode, i_mode, x, y, n, byte, byte_offset,
                   result_array, pxReads, headers, incList, structList, history, call>>

\* The mode is only inspected when the image reports no transparency data
\* (line 281).
ModeInspected(flag) == ~flag

\* The colour-model dispatch (lines 278-290) and the initialisation of the
\* accumulators (lines 304-306).  For a tag without ";" s[1] does not exist
\* and int(s[1]) raises.
CheckMode ==
    /\ pc = "mode"
    /\ LET flag == im.has_transparency_data
           s == im.mode
           inspected == ModeInspected(flag)
           exits == inspected /\ s # ModeRGBA /\ s # ModeRGB /\ s[1] # "I"
           raises == inspected /\ s # ModeRGBA /\ s # ModeRGB /\ s[1] = "I" /\ Len(s) < 2
       IN  /\ has_alpha' = (flag \/ (inspected /\ s = ModeRGBA))
           /\ rgb_mode' = (inspected /\ s # ModeRGBA /\ s = ModeRGB)
           /\ i_mode' = IF inspected /\ s # ModeRGBA /\ s # ModeRGB /\ ~exits /\ ~raises
                        THEN 2 ^ s[2] ELSE 65536
           /\ pc' = IF exits THEN "exit" ELSE IF raises THEN "crash" ELSE "scale"
           /\ IF exits \/ raises
              THEN UNCHANGED <<result_array, byte, byte_offset>>
              ELSE result_array' = <<>> /\ byte' = 0 /\ byte_offset' = 1
    /\ x' = 0 /\ y' = 0
    /\ UNCHANGED <<args, im, scale_factor_x, scale_factor_y, hn, hn2, wn, img, n,
                   pxReads, headers, incList, structList, history, call>>

(***************************************************************************)
(* The Block Downscaler (lines 307-340).                                   *)
(***************************************************************************)
RECURSIVE SumSeq(_)
SumSeq(s) == IF s = <<>> THEN 0 ELSE Head(s) + SumSeq(Tail(s))

\* The source coordinates px[x + xx, y + yy] of one block, in the order the
\* loops over yy and xx visit them (lines 314-318).
BlockCoords(bx, by, sx, sy) ==
    [k \in 1 .. sx * sy |-> << bx + ((k - 1) % sx), by + ((k - 1) \div sx) >>]

\* The colour normalisation of one sample (lines 317-323).
PixelRgb(sample) ==
    IF has_alpha THEN rgba2rgb(sample, DefaultBg)
    ELSE IF rgb_mode THEN sample
    ELSE LET pxx == scale_crop(sample, i_mode \div 256) IN <<pxx, pxx, pxx>>

\* One entry of vpx (line 325).
InvLuma(sample) == get_y(color_invert(PixelRgb(sample)))

\* r = sum(vpx) // (scale_factor_x * scale_factor_y) (line 329).
BlockMean(vpx) == SumSeq(vpx) \div Len(vpx)

\* A threshold test that is not strict.
Lit_inclusive(r, thr) == r >= thr

\* The threshold test (line 331).
Lit(r, thr) == r > thr

\* px[p] raises IndexError outside the image.
InImage(p) == p[1] < im.width /\ p[2] < im.height

\* rgba2rgb indexes c[0..3]: it raises unless the sample has four values.
SampleFits == has_alpha => Bands(im.mode) >= 4

\* One iteration of the loop over x (lines 309-337), and the step to the
\* next block, the next row of blocks, or the packing loop.
DownscaleBlock ==
    /\ pc = "scale"
    /\ LET coords == BlockCoords(x, y, scale_factor_x, scale_factor_y)
           outside == { k \in DOMAIN coords : ~InImage(coords[k]) }
           firstOut == CHOOSE k \in outside : \A j \in outside : k <= j
       IN  IF ~SampleFits
           THEN \* the first sample is read, then rgba2rgb raises
                /\ pxReads' = pxReads + 1
                /\ pc' = "crash"
                /\ UNCHANGED <<img, x, y, n>>
           ELSE IF outside # {}
           THEN \* the samples before the first one outside the image are read
                /\ pxReads' = pxReads + (firstOut - 1)
                /\ pc' = "crash"
                /\ UNCHANGED <<img, x, y, n>>
           ELSE LET vpx == [k \in DOMAIN coords |-> InvLuma(im.px[coords[k]])]
                    r == BlockMean(vpx)
                IN  /\ pxReads' = pxReads + Len(coords)
                    /\ img' = IF Lit(r, args.thr)
                              THEN [img EXCEPT ![y \div scale_factor_y][x \div scale_factor_x] = 1]
                              ELSE img
                    /\ IF x + scale_factor_x < im.width
                       THEN x' = x + scale_factor_x /\ y' = y /\ pc' = pc /\ n' = n
                       ELSE IF y + scale_factor_y < im.height
                       THEN x' = 0 /\ y' = y + scale_factor_y /\ pc' = pc /\ n' = n
                       ELSE x' = 0 /\ y' = 0 /\ n' = 0 /\ pc' = "pack"
    /\ UNCHANGED <<args, im, scale_factor_x, scale_factor_y, hn, hn2, wn, has_alpha,
                   rgb_mode, i_mode, byte, byte_offset, result_array,
                   headers, incList, structList, history, call>>

(***************************************************************************)
(* The Bit Packer (lines 343-365).                                         *)
(***************************************************************************)
\* byte | byte_offset, for byte_offset a power of two.
BitOr(b, offset) == IF (b \div offset) % 2 = 1 THEN b ELSE b + offset

\* A bit test that reads the grid bottom-up.
BitSet_flipped(yc) == (yc < hn) /\ (img[hn - 1 - yc][x] # 0)

\* The test of line 347.
BitSet(yc) == (yc < hn) /\ (img[yc][x] # 0)

\* A flush test that is off by one bit.
FlushDue_late(offset) == offset > 256

\* The test of line 351: eight bits have been accumulated.
FlushDue(offset) == offset >= 256

\* One iteration of the loop over y (lines 345-354).
PackBit ==
    /\ pc = "pack"
    /\ LET yc == n * 8 + y
           b == IF BitSet(yc) THEN BitOr(byte, byte_offset) ELSE byte
           offset == byte_offset * 2
       IN  IF FlushDue(offset)
           THEN /\ result_array' = Append(result_array, b)
                /\ byte' = 0
                /\ byte_offset' = 1
           ELSE /\ result_array' = result_array
                /\ byte' = b
                /\ byte_offset' = offset
    /\ y' = y + 1
    /\ pc' = IF y + 1 < 8 THEN "pack" ELSE "colend"
    /\ UNCHANGED <<args, im, scale_factor_x, scale_factor_y, hn, hn2, wn, has_alpha,
                   rgb_mode, i_mode, img, x, n, pxReads,
                   headers, incList, structList, history, call>>

\* The flush of a partial byte; it guards lines 356-359 and lines 364-365.
PartialByte == byte_offset > 1

\* After the loop over y: the flush of lines 356-359 and the step to the
\* next column, the next page, or the end of the packing loop.
PackColumnEnd ==
    /\ pc = "colend"
    /\ IF PartialByte
       THEN /\ result_array' = Append(result_array, byte)
            /\ byte' = 0
            /\ byte_offset' = 1
       ELSE UNCHANGED <<result_array, byte, byte_offset>>
    /\ y' = 0
    /\ IF x + 1 < wn
       THEN x' = x + 1 /\ n' = n /\ pc' = "pack"
       ELSE IF n + 1 < hn2
       THEN x' = 0 /\ n' = n + 1 /\ pc' = "pack"
       ELSE x' = x /\ n' = n /\ pc' = "flush"
    /\ UNCHANGED <<args, im, scale_factor_x, scale_factor_y, hn, hn2, wn, has_alpha,
                   rgb_mode, i_mode, img, pxReads,
                   headers, incList, structList, history, call>>

\* The flush after all loops (lines 363-365).
FinalFlush ==
    /\ pc = "flush"
    /\ IF PartialByte
       THEN result_array' = Append(result_array, byte)
       ELSE result_array' = result_array
    /\ pc' = "save"
    /\ UNCHANGED <<args, im, scale_factor_x, scale_factor_y, hn, hn2, wn, has_alpha,
                   rgb_mode, i_mode, img, x, y, n, byte, byte_offset, pxReads,
                   headers, incList, structList, history, call>>

(***************************************************************************)
(* The Artifact Emitter: save_to_h (lines 97-157) and the list appends     *)
(* (lines 367-378).  A file is a record; the comment block and the         *)
(* hexadecimal rendering of the header are left out of its content.        *)
(***************************************************************************)
Put(f, k, v) == [j \in (DOMAIN f) \cup {k} |-> IF j = k THEN v ELSE f[j]]

\* The tuple save_to_h returns (line 157).
HeaderNames(filename) ==
    LET def_base == get_h_define(filename)
    IN  [ hf   |-> get_h_filename(filename),
          s_w  |-> def_base \o <<"_", "W">>,
          s_h  |-> def_base \o <<"_", "H">>,
          s_fl |-> def_base \o <<"_", "F", "L", "A", "G", "S">>,
          s_d  |-> def_base \o <<"_", "D", "a", "t", "a">>,
          s_fn |-> def_base \o <<"_", "F", "I", "L", "E", "N", "A", "M", "E">> ]

\* The line written to the include list (line 370).
IncludeLine(names) == <<"#include", names.hf>>

\* The line written to the struct list (line 374).
StructLine(names) == <<names.s_w, names.s_h, names.s_fl, names.s_d, names.s_fn>>

\* A list file opened with mode "wt": its earlier lines are lost.
AppendLine_truncating(file, line) == <<line>>

\* A file opened with mode "at" keeps its lines; the new line goes last.
AppendLine(file, line) == Append(file, line)

\* open(..., "wt") creates or truncates the header (lines 113-114).
SaveOpen ==
    /\ pc = "save"
    /\ headers' = Put(headers, get_h_filename(args.filename),
                      [status |-> "open", w |-> 0, h |-> 0, flags |-> 0, data |-> <<>>])
    /\ pc' = "write"
    /\ UNCHANGED <<args, im, scale_factor_x, scale_factor_y, hn, hn2, wn, has_alpha,
                   rgb_mode, i_mode, img, x, y, n, byte, byte_offset, result_array,
                   pxReads, incList, structList, history, call>>

\* A save_to_h that returns without closing the header.
SaveWrite_unclosed ==
    /\ pc = "write"
    /\ headers' = Put(headers, get_h_filename(args.filename),
                      [status |-> "open", w |-> wn, h |-> hn, flags |-> 0,
                       data |-> result_array])
    /\ pc' = "inc"
    /\ UNCHANGED <<args, im, scale_factor_x, scale_factor_y, hn, hn2, wn, has_alpha,
                   rgb_mode, i_mode, img, x, y, n, byte, byte_offset, result_array,
                   pxReads, incList, structList, history, call>>

\* The defines and the data are written and the header is closed (lines 115-157).
SaveWrite ==
    /\ pc = "write"
    /\ headers' = Put(headers, get_h_filename(args.filename),
                      [status |-> "closed", w |-> wn, h |-> hn, flags |-> 0,
                       data |-> result_array])
    /\ pc' = "inc"
    /\ UNCHANGED <<args, im, scale_factor_x, scale_factor_y, hn, hn2, wn, has_alpha,
                   rgb_mode, i_mode, img, x, y, n, byte, byte_offset, result_array,
                   pxReads, incList, structList, history, call>>

\* Lines 368-371.
AppendInclude ==
    /\ pc = "inc"
    /\ incList' = IF args.list_include # ""
                  THEN AppendLine(incList, IncludeLine(HeaderNames(args.filename)))
                  ELSE incList
    /\ pc' = "struct"
    /\ UNCHANGED <<args, im, scale_factor_x, scale_factor_y, hn, hn2, wn, has_alpha,
                   rgb_mode, i_mode, img, x, y, n, byte, byte_offset, result_array,
                   pxReads, headers, structList, history, call>>

\* Lines 372-375.
AppendStruct ==
    /\ pc = "struct"
    /\ structList' = IF args.list_struct # ""
                     THEN AppendLine(structList, StructLine(HeaderNames(args.filename)))
                     ELSE structList
    /\ pc' = "return"
    /\ UNCHANGED <<args, im, scale_factor_x, scale_factor_y, hn, hn2, wn, has_alpha,
                   rgb_mode, i_mode, img, x, y, n, byte, byte_offset, result_array,
                   pxReads, headers, incList, history, call>>

\* The invocation is over: its locals are gone, and it is recorded.
Finish(ok) ==
    /\ history' = Append(history, [ filename |-> args.filename, ok |-> ok,
                                    list_include |-> args.list_include,
                                    list_struct |-> args.list_struct ])
    /\ pc' = "idle"
    /\ args' = NoArgs /\ im' = NoImage
    /\ scale_factor_x' = 0 /\ scale_factor_y' = 0 /\ hn' = 0 /\ hn2' = 0 /\ wn' = 0
    /\ has_alpha' = FALSE /\ rgb_mode' = FALSE /\ i_mode' = 0
    /\ img' = <<>> /\ x' = 0 /\ y' = 0 /\ n' = 0
    /\ byte' = 0 /\ byte_offset' = 0 /\ result_array' = <<>> /\ pxReads' = 0
    /\ UNCHANGED <<headers, incList, structList, call>>

\* return 0 (lines 377-378).
Return == pc = "return" /\ Finish(TRUE)

\* exit(message) (lines 261, 289) or an uncaught exception ends the process.
ProcessEnd == pc \in {"exit", "crash"} /\ Finish(FALSE)

\* One invocation of main().
Next ==
    \/ OpenSmall
    \/ OpenExample
    \/ CheckDims
    \/ CheckMode
    \/ DownscaleBlock
    \/ PackBit
    \/ PackColumnEnd
    \/ FinalFlush
    \/ SaveOpen
    \/ SaveWrite
    \/ AppendInclude
    \/ AppendStruct
    \/ Return
    \/ ProcessEnd

Spec == Init /\ [][Next]_vars

\* Up to MaxRuns invocations of main(), one after the other, on one output folder.
NextRuns ==
    \/ OpenRun
    \/ CheckDims
    \/ CheckMode
    \/ DownscaleBlock
    \/ PackBit
    \/ PackColumnEnd
    \/ FinalFlush
    \/ SaveOpen
    \/ SaveWrite
    \/ AppendInclude
    \/ AppendStruct
    \/ Return
    \/ ProcessEnd

SpecRuns == Init /\ [][NextRuns]_vars

(***************************************************************************)
(* Single calls of the pure helpers, on enumerated arguments.  A call is   *)
(* [fn, kind, src, arg, ret]: fn is the function applied last ("input"     *)
(* before any), src the enumerated value of the given kind, arg and ret    *)
(* the argument and the result of fn.  An RGBA value is taken through      *)
(* rgba2rgb, color_invert and get_y as line 318 and line 325 do.           *)
(***************************************************************************)
\* Every alpha with every channel value, the three channels 85 apart.
RgbaArgs ==
    { << c, (c + 85) % 256, (c + 170) % 256, alpha >> : c \in 0 .. 255, alpha \in 0 .. 255 }
    \cup { <<0, 0, 0, 255>>, <<255, 255, 255, 255>> }

ChannelArgs == {0, 1, 2, 127, 128, 254, 255}

RgbArgs == ChannelArgs \X ChannelArgs \X ChannelArgs

InitCalls ==
    /\ pc = "idle"
    /\ Locals0
    /\ headers = <<>>
    /\ incList = <<>> /\ structList = <<>>
    /\ history = <<>>
    /\ \/ \E v \in (0 - MinVAbs) .. MaxV :
            call = [fn |-> "input", kind |-> "int", src |-> v, arg |-> v, ret |-> v]
       \/ \E c \in RgbaArgs :
            call = [fn |-> "input", kind |-> "rgba", src |-> c, arg |-> c, ret |-> c]
       \/ \E c \in RgbArgs :
            call = [fn |-> "input", kind |-> "rgb", src |-> c, arg |-> c, ret |-> c]

Pipeline0 ==
    UNCHANGED <<pc, args, im, scale_factor_x, scale_factor_y, hn, hn2, wn,
                has_alpha, rgb_mode, i_mode, img, x, y, n, byte, byte_offset,
                result_array, pxReads, headers, incList, structList, history>>

CallScaleCrop ==
    /\ call.fn = "input" /\ call.kind = "int"
    /\ call' = [call EXCEPT !.fn = "scale_crop", !.arg = call.ret,
                            !.ret = scale_crop(call.ret, DefaultScale)]
    /\ Pipeline0

CallRgba2rgb ==
    /\ call.fn = "input" /\ call.kind = "rgba"
    /\ call' = [call EXCEPT !.fn = "rgba2rgb", !.arg = call.ret,
                            !.ret = rgba2rgb(call.ret, DefaultBg)]
    /\ Pipeline0

CallColorInvert ==
    /\ call.fn = "rgba2rgb"
    /\ call' = [call EXCEPT !.fn = "color_invert", !.arg = call.ret,
                            !.ret = color_invert(call.ret)]
    /\ Pipeline0

CallGetY ==
    /\ (call.fn = "input" /\ call.kind = "rgb") \/ call.fn = "color_invert"
    /\ call' = [call EXCEPT !.fn = "get_y", !.arg = call.ret, !.ret = get_y(call.ret)]
    /\ Pipeline0

NextCalls == CallScaleCrop \/ CallRgba2rgb \/ CallColorInvert \/ CallGetY

SpecCalls == InitCalls /\ [][NextCalls]_vars

(***************************************************************************)
(* Properties.                                                             *)
(***************************************************************************)
Clamp(q) == IF q < 0 THEN 0 ELSE IF q > 255 THEN 255 ELSE q

\* q is the ceiling of v / d: the least integer with v <= d * q.
IsCeilDiv(q, v, d) == d * (q - 1) < v /\ v <= d * q

\* The quotients the enumerated arguments can have.
Quotients == ((0 - MinVAbs) \div 255) - 1 .. (MaxV \div 255) + 2

\* ret = clamp(ceil(v / d), 0, 255)
IsClampCeil(ret, v, d) == \E q \in Quotients : IsCeilDiv(q, v, d) /\ ret = Clamp(q)

\* main() has produced the whole byte stream.
Packed == pc \in {"save", "write", "inc", "struct", "return"}

\* main() is past the colour-model check.
PastModeCheck == pc \in {"scale", "pack", "colend", "flush"} \/ Packed

\* ceil(h / 8): the least k with 8k >= h.
PagesOf(h) == CHOOSE k \in 0 .. h : 8 * k >= h /\ 8 * (k - 1) < h

\* The grid bit at (row, column); rows beyond dest_h contribute 0.
GridBit(row, column) == IF row < args.dest_h /\ img[row][column] # 0 THEN 1 ELSE 0

ByteOf(page, column) ==
    SumSeq([r \in 1 .. 8 |-> GridBit(page * 8 + (r - 1), column) * (2 ^ (r - 1))])

GridCells == (0 .. args.dest_h - 1) \X (0 .. args.dest_w - 1)

\* C1: once the packing loop has finished, the byte stream has exactly
\* dest_w * ceil(dest_h / 8) bytes and the byte at index page * dest_w + column
\* is the sum of grid[page*8 + r][column] << r over the rows r in 0..7 of the
\* page that lie inside the grid.  The docstring image packs to
\* 0x01 0x10 0x02 0x20 0x04 0x40 0x08 0x80, an all-zero grid to zero bytes, an
\* all-one grid whose height is a multiple of 8 to 0xFF bytes.
C1_PackLayout ==
    Packed =>
      /\ Len(result_array) = args.dest_w * PagesOf(args.dest_h)
      /\ \A page \in 0 .. PagesOf(args.dest_h) - 1, column \in 0 .. args.dest_w - 1 :
           result_array[page * args.dest_w + column + 1] = ByteOf(page, column)
      /\ (im = DocImage /\ args.dest_w = 8 /\ args.dest_h = 8 /\ args.thr = DefaultThr)
           => result_array = <<1, 16, 2, 32, 4, 64, 8, 128>>
      /\ (\A g \in GridCells : img[g[1]][g[2]] = 0)
           => \A i \in DOMAIN result_array : result_array[i] = 0
      /\ ((\A g \in GridCells : img[g[1]][g[2]] = 1) /\ args.dest_h % 8 = 0)
           => \A i \in DOMAIN result_array : result_array[i] = 255

\* The docstring image has been packed.
C1_Witness ==
    /\ pc = "save" /\ im = DocImage
    /\ result_array = <<1, 16, 2, 32, 4, 64, 8, 128>>

\* The source pixels of the block of destination pixel (dx, dy).
BlockPixels(dx, dy) ==
    { p \in Pixels(im.width, im.height) :
        /\ dx * scale_factor_x <= p[1] /\ p[1] < dx * scale_factor_x + scale_factor_x
        /\ dy * scale_factor_y <= p[2] /\ p[2] < dy * scale_factor_y + scale_factor_y }

RECURSIVE LumaSum(_)
LumaSum(S) ==
    IF S = {} THEN 0
    ELSE LET p == CHOOSE q \in S : TRUE
         IN  InvLuma(im.px[p]) + LumaSum(S \ {p})

\* The block of (dx, dy) has been reduced.
Reduced(dx, dy) ==
    IF pc \in {"scale", "crash"}
    THEN \/ dy * scale_factor_y < y
         \/ dy * scale_factor_y = y /\ dx * scale_factor_x < x
    ELSE TRUE

\* floor(sum / count) > thr, without the division: sum >= (thr + 1) * count.
MeanAbove(sum, count, thr) == sum >= (thr + 1) * count

\* C2: in an accepted run the bit of every reduced destination pixel is 1
\* exactly when the floor mean of the inverted luma over its own block is
\* strictly greater than the threshold (so a floor mean equal to the
\* threshold gives 0); the bit of a pixel not yet reduced is 0.
C2_Downscale ==
    (pc = "scale" \/ pc = "crash" \/ PastModeCheck) =>
      \A dy \in 0 .. hn - 1, dx \in 0 .. wn - 1 :
        IF Reduced(dx, dy)
        THEN /\ img[dy][dx] \in {0, 1}
             /\ img[dy][dx] = 1 <=>
                  MeanAbove(LumaSum(BlockPixels(dx, dy)),
                            scale_factor_x * scale_factor_y, args.thr)
        ELSE img[dy][dx] = 0

\* A block of several pixels whose floor mean equals the threshold gave bit 0.
C2_Witness ==
    /\ pc = "pack"
    /\ scale_factor_x * scale_factor_y > 1
    /\ \E dy \in 0 .. hn - 1, dx \in 0 .. wn - 1 :
         /\ LumaSum(BlockPixels(dx, dy)) \div (scale_factor_x * scale_factor_y) = args.thr
         /\ img[dy][dx] = 0

\* The run's scale factors do not tile the source exactly.
NonExact ==
    LET sx == IF im.width \div args.dest_w < 1 THEN 1 ELSE im.width \div args.dest_w
        sy == IF im.height \div args.dest_h < 1 THEN 1 ELSE im.height \div args.dest_h
    IN  \/ im.width % sx # 0
        \/ im.height % sy # 0
        \/ im.width \div sx # args.dest_w
        \/ im.height \div sy # args.dest_h

\* C3: a run whose scale factors do not tile the source exactly (a remainder,
\* or a result size other than the requested one) aborts at the dimension
\* check: it is never past that check except as exited, it has read no
\* source pixel and written no output.
C3_RejectedAtDimensionCheck ==
    (pc \notin {"idle", "dims"} /\ NonExact) =>
      /\ pc = "exit"
      /\ pxReads = 0
      /\ headers = <<>> /\ incList = <<>> /\ structList = <<>>

\* The tags the colour normaliser supports: RGB, RGBA, "I;<bits>".
Supported(mode) == mode = ModeRGB \/ mode = ModeRGBA \/ (Len(mode) = 2 /\ mode[1] = "I")

\* C4: an image whose tag is not RGB, RGBA or "I;<bits>" never gets past the
\* colour-model check and has no pixel read, whatever its transparency flag;
\* and an image tagged RGB is processed by the pass-through RGB branch.
C4_UnsupportedFailsFast ==
    /\ (pc \notin {"idle", "dims", "mode"} /\ ~Supported(im.mode))
         => (pc \in {"exit", "crash"} /\ pxReads = 0)
    /\ ((PastModeCheck \/ pc = "crash") /\ im.mode = ModeRGB)
         => (rgb_mode /\ ~has_alpha)

\* The file name of the current run or, between runs, of the last one.
LastFile == IF pc = "idle" THEN history[Len(history)].filename ELSE args.filename
LastInclude == IF pc = "idle" THEN history[Len(history)].list_include ELSE args.list_include
LastStruct == IF pc = "idle" THEN history[Len(history)].list_struct ELSE args.list_struct

HeaderClosed(filename) ==
    /\ get_h_filename(filename) \in DOMAIN headers
    /\ headers[get_h_filename(filename)].status = "closed"

\* C5: within one run a list holds a line only if the header has been
\* written and closed; a run that aborted opened no header and appended
\* nothing; a list that is not configured is left unchanged.
C5_OutputOrdering ==
    (pc # "idle" \/ history # <<>>) =>
      /\ (incList # <<>> \/ structList # <<>>) => HeaderClosed(LastFile)
      /\ (pc \in {"exit", "crash"} \/ (pc = "idle" /\ ~history[Len(history)].ok))
           => (headers = <<>> /\ incList = <<>> /\ structList = <<>>)
      /\ LastInclude = "" => incList = <<>>
      /\ LastStruct = "" => structList = <<>>
      /\ pc \in {"struct", "return"} /\ LastInclude # "" => Len(incList) = 1
      /\ pc = "return" /\ LastStruct # "" => Len(structList) = 1

\* Both lines have been appended, after the header was closed.
C5_Witness ==
    /\ pc = "return"
    /\ Len(incList) = 1 /\ Len(structList) = 1
    /\ HeaderClosed(args.filename)

Solid16(c) == Spotted(ModeRGB, FALSE, 16, 16, c, c, {})

DefaultRun == args.dest_w = 16 /\ args.dest_h = 16 /\ args.thr = DefaultThr

\* C8: a 16 x 16 RGB image converted with the defaults is never rejected and
\* yields exactly 32 bytes, all 0xFF for solid black and all 0x00 for solid
\* white; the header holds that byte stream.
C8_EndToEndPolarity ==
    \A c \in {Black, White} :
      (pc # "idle" /\ DefaultRun /\ im = Solid16(c)) =>
        /\ pc \notin {"exit", "crash"}
        /\ Packed =>
             /\ Len(result_array) = 32
             /\ \A i \in 1 .. 32 : result_array[i] = (IF c = Black THEN 255 ELSE 0)
        /\ pc = "return" => headers[get_h_filename(args.filename)].data = result_array

C8_Witness ==
    /\ pc = "return" /\ DefaultRun /\ im = Solid16(Black)
    /\ Len(result_array) = 32
    /\ \A i \in 1 .. 32 : result_array[i] = 255

\* C10: whenever the inner row loop of a (page, column) pair has finished,
\* exactly one byte has been appended for the pair and the accumulator is
\* reset (byte = 0, byte_offset = 1), so neither the flush after the inner
\* loop nor the flush after all loops appends a byte (both need
\* byte_offset > 1).
C10_AccumulatorReset ==
    /\ pc = "colend" =>
         /\ byte = 0 /\ byte_offset = 1
         /\ Len(result_array) = n * wn + x + 1
         /\ ~PartialByte
    /\ pc = "flush" =>
         /\ byte = 0 /\ byte_offset = 1
         /\ Len(result_array) = wn * hn2
         /\ ~PartialByte

\* The inner loop has finished on a column of a partial last page.
C10_Witness ==
    /\ pc = "colend"
    /\ hn2 = 2 /\ n = 1 /\ hn % 8 # 0
    /\ Len(result_array) = 2

RECURSIVE IncLines(_)
IncLines(h) ==
    IF h = <<>> THEN <<>>
    ELSE (IF Head(h).ok /\ Head(h).list_include # ""
          THEN << <<"#include", get_h_filename(Head(h).filename)>> >> ELSE <<>>)
         \o IncLines(Tail(h))

RECURSIVE StructLines(_)
StructLines(h) ==
    IF h = <<>> THEN <<>>
    ELSE (IF Head(h).ok /\ Head(h).list_struct # ""
          THEN << StructLine(HeaderNames(Head(h).filename)) >> ELSE <<>>)
         \o StructLines(Tail(h))

C6_Divisor255 ==
    call.fn = "rgba2rgb" =>
      \A i \in 1 .. 3 :
        IsClampCeil(call.ret[i], (255 - call.arg[4]) * 255 + call.arg[4] * call.arg[i], 255)

\* C6 amended: each channel rgba2rgb returns is
\* clamp(ceil(((255 - alpha) * 255 + alpha * channel) / 256), 0, 255): the
\* ceiling division uses scale_crop's default divisor 256.
C6_Divisor256 ==
    call.fn = "rgba2rgb" =>
      \A i \in 1 .. 3 :
        IsClampCeil(call.ret[i], (255 - call.arg[4]) * 255 + call.arg[4] * call.arg[i], 256)

\* alpha = 1, red = 1: 64771 / 256 rounds up to 254, 64771 / 255 to 255.
C6_Witness ==
    /\ call.fn = "rgba2rgb"
    /\ call.arg[1] = 1 /\ call.arg[4] = 1
    /\ call.ret[1] = 254

\* C7: scale_crop(v) = clamp(ceil(v / 256), 0, 255), in 0..255, with
\* scale_crop(0) = 0, scale_crop(65280) = 255, scale_crop(65281) = 255,
\* scale_crop(-1) = 0; get_y(r, g, b) = scale_crop(76r + 150g + 29b); opaque
\* white gives inverted RGB (0,0,0) and luma 0, opaque black gives inverted
\* RGB (255,255,255) and luma 255.
C7_ScaleCropAndLuma ==
    /\ call.fn = "scale_crop" =>
         /\ call.ret \in 0 .. 255
         /\ IsClampCeil(call.ret, call.arg, 256)
         /\ call.arg \in {0, 0 - 1} => call.ret = 0
         /\ call.arg \in {65280, 65281} => call.ret = 255
    /\ call.fn = "get_y" =>
         /\ call.ret \in 0 .. 255
         /\ IsClampCeil(call.ret, 76 * call.arg[1] + 150 * call.arg[2] + 29 * call.arg[3], 256)
    /\ (call.kind = "rgba" /\ call.src = <<255, 255, 255, 255>>) =>
         /\ call.fn = "color_invert" => call.ret = <<0, 0, 0>>
         /\ call.fn = "get_y" => (call.arg = <<0, 0, 0>> /\ call.ret = 0)
    /\ (call.kind = "rgba" /\ call.src = <<0, 0, 0, 255>>) =>
         /\ call.fn = "color_invert" => call.ret = <<255, 255, 255>>
         /\ call.fn = "get_y" => (call.arg = <<255, 255, 255>> /\ call.ret = 255)

\* Opaque black has gone through rgba2rgb, color_invert and get_y.
C7_Witness ==
    /\ call.fn = "get_y" /\ call.kind = "rgba"
    /\ call.src = <<0, 0, 0, 255>>
    /\ call.ret = 255

====
